---- MODULE Spec2Model ----
(***************************************************************************)
(* The mock serial-port binding (MockBindings) of node-serialport: the     *)
(* port registry, the handle (fd) allocation, the lock check of open, and  *)
(* the completion callbacks that callLater defers to process.nextTick.     *)
(* The binding is driven the way test/bindings.js drives it: by direct     *)
(* calls of its operations, each with a completion callback.               *)
(***************************************************************************)
EXTENDS Integers, Sequences, FiniteSets, TLC

\* ---------------------------------------------------------------- bounds
\* handles 0 .. MaxFd-1 can be allocated between two resets
MaxFd == 2
\* registry entries createPort can create between two resets
MaxPorts == 2
\* completion callbacks pending on the nextTick queue
MaxQueue == 1
\* bytes in one buffer handed to write
MaxLen == 1
\* bytes of unread inbound data one entry accumulates
MaxData == 1
\* completion functions of the SerialPort object pending on the nextTick queue
MaxPending == 2
\* once('open') listeners the SerialPort object holds
MaxListeners == 2
\* chunks submitted to the SerialPort object's write
MaxWrites == 3

\* ---------------------------------------------------------------- values
\* the paths callers name: testPort, which test/bindings.js registers with
\* createPort, and COMBAD, which it never registers
Paths == {"/dev/exists", "COMBAD"}
testPort == "/dev/exists"
Bytes == {1}
\* JavaScript's undefined, where a number is expected
Undefined == -1
\* no port object: what a lookup in ports / fds yields for an absent key
NoPort == 0
\* the handles a caller may pass: every allocatable one and one (MaxFd) that
\* open never returns
Fds == 0 .. MaxFd
EmptyMap == [x \in {} |-> 0]
Buffers == UNION {[1 .. n -> Bytes] : n \in 0 .. MaxLen}
DataChunks == [1 .. 1 -> Bytes]
\* port.lastWrite is null or a Buffer (possibly an empty one)
NullBuf == [isNull |-> TRUE, bytes |-> <<>>, shared |-> FALSE]
\* a plausible slip: the slot keeps the Buffer object it was handed
SameBuffer(b) == [isNull |-> FALSE, bytes |-> b, shared |-> TRUE]
\* new Buffer(buffer): a fresh Buffer object holding the same bytes; shared
\* tells whether the object is one the caller holds too
NewBuffer(b) == [isNull |-> FALSE, bytes |-> b, shared |-> FALSE]
\* the Buffer the caller of write keeps: var data = new Buffer(...)
CallerData == [i \in 1 .. MaxLen |-> 1]
\* the values data.fill(v) is called with: 0 and the bytes written
FillBytes == Bytes \cup {0}
\* what data.fill(v) leaves in a Buffer holding b
Filled(b, v) == [i \in 1 .. Len(b) |-> v]
\* the options objects handed to open: only lock is read by the mock
OpenOpts == [lock : BOOLEAN]
\* the options objects handed to update: {} and {baudRate: n}
UpdateOpts == {[has |-> FALSE, baudRate |-> 0]}
               \cup [has : {TRUE}, baudRate : {0, 9600}]
\* port.openOpt before the first successful open: the property is not set
NoOpt == [set |-> FALSE, lock |-> FALSE]
defaultSetFlags == [brk |-> FALSE, cts |-> FALSE, dtr |-> TRUE, dts |-> FALSE, rts |-> TRUE]

Put(m, k, v) == [x \in DOMAIN m \cup {k} |-> IF x = k THEN v ELSE m[x]]
Del(m, k) == [x \in DOMAIN m \ {k} |-> m[x]]

VARIABLES
    nextFd,   \* MockBindings.nextFd
    fds,      \* MockBindings.fds: handle -> port object
    ports,    \* MockBindings.ports: path -> port object
    objs,     \* the port objects created since construction / reset, by identity
    queue,    \* process.nextTick queue: the callbacks callLater deferred
    last,     \* what the most recent step did: the call, and the callback it ran
    hist,     \* per handle open has returned since construction / reset: the lock
              \* option and the port object it was opened with, and whether
              \* close has not yet succeeded on it
    data,     \* the bytes of the Buffer object the caller of write keeps
    sp,       \* the SerialPort object: fd, opening, options.baudRate and its
              \* once('open') listeners; made tells whether it was constructed
    ws,       \* the writable side of the stream sp inherits: whether a _write
              \* awaits its callback, and the chunks buffered meanwhile
    run,      \* the nextTick callback taken off the queue that is running
    did,      \* what the most recent step of the SerialPort object did: the
              \* binding calls, the notifications and the callbacks, in order
    sent      \* the chunks submitted to sp.write so far (a count), and the
              \* bytes handed to the binding's write so far, in order

vars == <<nextFd, fds, ports, objs, queue, last, hist, data, sp, ws, run, did,
          sent>>
\* the state outside the binding and the nextTick queue
app == <<data, sp, ws, run, did, sent>>
hw == <<nextFd, fds, ports, objs>>

\* ---------------------------------------------------------------- events
NoEvent ==
    [op |-> "none", path |-> "", fd |-> Undefined, lock |-> FALSE,
     has |-> FALSE, baud |-> 0, buf |-> <<>>, threw |-> FALSE,
     cb |-> "none", cbop |-> "none", err |-> "none", val |-> Undefined,
     info |-> {}]

\* a completion callback of a direct caller of the binding
Cb(op) == [of |-> op, fn |-> "test"]
Args(err, val) == [err |-> err, val |-> val, info |-> {}]

\* ---------------------------------------------------------------- lookups
getPortByPath(path) == IF path \in DOMAIN ports THEN ports[path] ELSE NoPort
getPortByFD(fd) == IF fd \in DOMAIN fds THEN fds[fd] ELSE NoPort

\* the object createPort stores: no fd property, no openOpt yet
NewPort(path) ==
    [data |-> <<>>, lastWrite |-> NullBuf, openOpt |-> NoOpt,
     comName |-> path, fds |-> <<>>]

\* ---------------------------------------------------------------- callLater
\* callLater(cb, args...): process.nextTick(function() { cb.apply(null, args) })
callLater(cb, args) ==
    /\ Len(queue) < (IF cb.fn = "test" THEN MaxQueue ELSE MaxPending)
    /\ queue' = Append(queue, [cb |-> cb, err |-> args.err, val |-> args.val,
                               info |-> args.info])

\* ---------------------------------------------------------------- operations
reset ==
    /\ ports' = EmptyMap
    /\ fds' = EmptyMap
    /\ nextFd' = 0
    /\ objs' = <<>>
    /\ hist' = EmptyMap
    /\ last' = [NoEvent EXCEPT !.op = "reset"]
    /\ UNCHANGED queue

\* this.ports[path].fd: the port objects carry fds, never fd
PortFd(port) == Undefined

createPort(path) ==
    /\ Len(objs) < MaxPorts
    /\ fds' = IF path \in DOMAIN ports
                THEN Del(fds, PortFd(objs[ports[path]]))
                ELSE fds
    /\ objs' = Append(objs, NewPort(path))
    /\ ports' = Put(ports, path, Len(objs) + 1)
    /\ last' = [NoEvent EXCEPT !.op = "createPort", !.path = path]
    /\ UNCHANGED <<nextFd, queue, hist>>

\* concat of port.data and the emitted bytes; the mock poller is never
\* constructed for a port, so port.poller stays null and nothing is signalled
emitData(path, chunk) ==
    LET port == getPortByPath(path) IN
    IF port = NoPort
      THEN \* port is undefined: reading port.data throws a TypeError
           /\ last' = [NoEvent EXCEPT !.op = "emitData", !.path = path,
                                      !.threw = TRUE, !.err = "TypeError"]
           /\ UNCHANGED <<hw, queue, hist>>
      ELSE /\ Len(objs[port].data) + Len(chunk) <= MaxData
           /\ objs' = [objs EXCEPT ![port].data = @ \o chunk]
           /\ last' = [NoEvent EXCEPT !.op = "emitData", !.path = path]
           /\ UNCHANGED <<nextFd, fds, ports, queue, hist>>

\* a plausible slip: the comparison is off by one, so a second handle is let in
LockedOffByOne(port) == Len(port.fds) > 1 /\ port.openOpt.lock

\* a plausible slip: the handle count is forgotten, so the recorded lock
\* option refuses opens even after every handle is closed
LockedIgnoringHandles(port) == port.openOpt.lock

\* port.fds.length > 0 && port.openOpt.lock
Locked(port) == Len(port.fds) > 0 /\ port.openOpt.lock

\* a plausible slip: the counter is read but not advanced
NextFdNoIncrement(n) == n

\* var fd = this.nextFd++ : the value the counter has afterwards
NextFdAfter(n) == n + 1

\* a plausible slip: the lock option is recorded as its default, true
RecordedOptDefaultLock(opt) == [set |-> TRUE, lock |-> TRUE]

\* port.openOpt = opt
RecordedOpt(opt) == [set |-> TRUE, lock |-> opt.lock]

\* a plausible slip: the handle is allocated before the path is looked up
openMissingAllocFirst(ev, cb) ==
    /\ nextFd < MaxFd
    /\ nextFd' = nextFd + 1
    /\ last' = [ev EXCEPT !.cb = "sync", !.cbop = cb.of,
                          !.err = "MissingPortError"]
    /\ UNCHANGED <<fds, ports, objs, queue, hist>>

\* if (!port) return cb(new MissingPortError(path)): cb is called inside open
openMissing(ev, cb) ==
    /\ last' = [ev EXCEPT !.cb = "sync", !.cbop = cb.of,
                          !.err = "MissingPortError"]
    /\ UNCHANGED <<hw, queue, hist>>

\* return cb(new Error('port is locked cannot open')): cb is called inside open
openLocked(ev, cb) ==
    /\ last' = [ev EXCEPT !.cb = "sync", !.cbop = cb.of,
                          !.err = "port is locked cannot open"]
    /\ UNCHANGED <<hw, queue, hist>>

open(path, opt, cb) ==
    LET port == getPortByPath(path)
        ev == [NoEvent EXCEPT !.op = "open", !.path = path, !.lock = opt.lock]
    IN
    IF port = NoPort
      THEN openMissing(ev, cb)
      ELSE IF Locked(objs[port])
      THEN openLocked(ev, cb)
      ELSE /\ nextFd < MaxFd
           /\ objs' = [objs EXCEPT ![port].openOpt = RecordedOpt(opt),
                                   ![port].fds = Append(@, nextFd)]
           /\ nextFd' = NextFdAfter(nextFd)
           /\ fds' = Put(fds, nextFd, port)
           /\ callLater(cb, Args("none", nextFd))
           /\ hist' = Put(hist, nextFd,
                          [lock |-> opt.lock, port |-> port, open |-> TRUE])
           /\ last' = [ev EXCEPT !.cb = "queued", !.val = nextFd]
           /\ UNCHANGED ports

\* a plausible slip: the handle stays in the global map
DeleteFdForgotten(m, fd) == m

\* delete this.fds[fd]
DeleteFd(m, fd) == Del(m, fd)

\* a plausible slip: the entry's handle list is emptied
RemoveEveryFd(s, fd) == <<>>

\* port.fds.filter(function(item) { return item !== fd })
RemoveFd(s, fd) == SelectSeq(s, LAMBDA item : item # fd)

close(fd, cb) ==
    LET port == getPortByFD(fd)
        ev == [NoEvent EXCEPT !.op = "close", !.fd = fd]
    IN
    IF port = NoPort
      THEN /\ callLater(cb, Args("fd is already closed", Undefined))
           /\ last' = [ev EXCEPT !.cb = "queued", !.err = "fd is already closed"]
           /\ UNCHANGED <<hw, hist>>
      ELSE /\ fds' = DeleteFd(fds, fd)
           /\ objs' = [objs EXCEPT ![port].fds = RemoveFd(@, fd)]
           /\ callLater(cb, Args("none", Undefined))
           /\ hist' = [hist EXCEPT ![fd].open = FALSE]
           /\ last' = [ev EXCEPT !.cb = "queued"]
           /\ UNCHANGED <<nextFd, ports>>

\* !opt.baudRate: the property is absent, or holds a falsy number
NoBaudRate(opt) == ~opt.has \/ opt.baudRate = 0

\* a plausible slip: the handle is not looked up
CheckFdSkipped(ev, fd, cb) ==
    /\ callLater(cb, Args("none", Undefined))
    /\ last' = [ev EXCEPT !.cb = "queued"]
    /\ UNCHANGED <<hw, hist>>

\* the body shared by update, flush, set and drain after their own checks:
\* if (!this.getPortByFD(fd)) return callLater(cb, new MissingPortError());
\* callLater(cb, null)
CheckFd(ev, fd, cb) ==
    IF getPortByFD(fd) = NoPort
      THEN /\ callLater(cb, Args("MissingPortError", Undefined))
           /\ last' = [ev EXCEPT !.cb = "queued", !.err = "MissingPortError"]
           /\ UNCHANGED <<hw, hist>>
      ELSE /\ callLater(cb, Args("none", Undefined))
           /\ last' = [ev EXCEPT !.cb = "queued"]
           /\ UNCHANGED <<hw, hist>>

\* a plausible slip: the handle is looked up before the options are checked
updateFdFirst(fd, opt, cb) ==
    LET ev == [NoEvent EXCEPT !.op = "update", !.fd = fd, !.has = opt.has,
                              !.baud = opt.baudRate]
    IN
    IF getPortByFD(fd) = NoPort
      THEN /\ callLater(cb, Args("MissingPortError", Undefined))
           /\ last' = [ev EXCEPT !.cb = "queued", !.err = "MissingPortError"]
           /\ UNCHANGED <<hw, hist>>
      ELSE IF NoBaudRate(opt)
      THEN /\ last' = [ev EXCEPT !.threw = TRUE, !.err = "Missing baudRate"]
           /\ UNCHANGED <<hw, queue, hist>>
      ELSE /\ callLater(cb, Args("none", Undefined))
           /\ last' = [ev EXCEPT !.cb = "queued"]
           /\ UNCHANGED <<hw, hist>>

update(fd, opt, cb) ==
    LET ev == [NoEvent EXCEPT !.op = "update", !.fd = fd, !.has = opt.has,
                              !.baud = opt.baudRate]
    IN
    IF NoBaudRate(opt)
      THEN \* throw new Error('Missing baudRate')
           /\ last' = [ev EXCEPT !.threw = TRUE, !.err = "Missing baudRate"]
           /\ UNCHANGED <<hw, queue, hist>>
      ELSE CheckFd(ev, fd, cb)

write(fd, buffer, cb) ==
    LET port == getPortByFD(fd)
        ev == [NoEvent EXCEPT !.op = "write", !.fd = fd, !.buf = buffer]
    IN
    IF port = NoPort
      THEN /\ callLater(cb, Args("MissingPortError", Undefined))
           /\ last' = [ev EXCEPT !.cb = "queued", !.err = "MissingPortError"]
           /\ UNCHANGED <<hw, hist>>
      ELSE /\ objs' = [objs EXCEPT ![port].lastWrite = NewBuffer(buffer)]
           /\ callLater(cb, Args("none", Len(buffer)))
           /\ last' = [ev EXCEPT !.cb = "queued", !.val = Len(buffer)]
           /\ UNCHANGED <<nextFd, fds, ports, hist>>

flush(fd, cb) == CheckFd([NoEvent EXCEPT !.op = "flush", !.fd = fd], fd, cb)

set(fd, options, cb) == CheckFd([NoEvent EXCEPT !.op = "set", !.fd = fd], fd, cb)

drain(fd, cb) == CheckFd([NoEvent EXCEPT !.op = "drain", !.fd = fd], fd, cb)

\* the caller changes its own Buffer in place after a write: data.fill(v);
\* a slot holding that very object changes with it, a slot holding another
\* object does not
fill(v) ==
    /\ data # Filled(data, v)
    /\ data' = Filled(data, v)
    /\ objs' = [i \in 1 .. Len(objs) |->
                  IF objs[i].lastWrite.shared
                    THEN [objs[i] EXCEPT !.lastWrite.bytes = Filled(data, v)]
                    ELSE objs[i]]
    /\ last' = [NoEvent EXCEPT !.op = "fill"]
    /\ UNCHANGED <<nextFd, fds, ports, queue, hist>>

\* port.openOpt.disconnectedCallback(err): no options object handed to open
\* carries a disconnectedCallback, and an entry never opened has no openOpt,
\* so the call throws a TypeError
disconnect(path) ==
    /\ last' = [NoEvent EXCEPT !.op = "disconnect", !.path = path,
                               !.threw = TRUE, !.err = "TypeError"]
    /\ UNCHANGED <<hw, queue, hist>>

\* Object.keys(ports).map(path -> ports[path].info), as the set of comNames
list(cb) ==
    LET info == {objs[ports[path]].comName : path \in DOMAIN ports} IN
    /\ callLater(cb, [err |-> "none", val |-> Undefined, info |-> info])
    /\ last' = [NoEvent EXCEPT !.op = "list", !.cb = "queued", !.info = info]
    /\ UNCHANGED <<hw, hist>>

\* one turn of the nextTick queue: the oldest deferred callback is applied to
\* its arguments; a callback of test/bindings.js changes no binding state
runNextTick ==
    /\ queue # <<>>
    /\ queue' = Tail(queue)
    /\ last' = [NoEvent EXCEPT !.op = "nextTick", !.cb = "run",
                               !.cbop = Head(queue).cb.of,
                               !.err = Head(queue).err,
                               !.val = Head(queue).val,
                               !.info = Head(queue).info]
    /\ UNCHANGED <<hw, hist>>

\* ---------------------------------------------------------------- SerialPort
\* this.fd = null
Null == -2
\* typed option values: typeof v and the value
Num(n) == [t |-> "number", n |-> n, s |-> ""]
Str(x) == [t |-> "string", n |-> 0, s |-> x]
Bool(b) == [t |-> "boolean", n |-> IF b THEN 1 ELSE 0, s |-> ""]
\* the validation arrays; stop bits are counted in tenths (1.5 is 15)
DATABITS == {Num(5), Num(6), Num(7), Num(8)}
STOPBITS == {Num(10), Num(15), Num(20)}
PARITY == {Str("none"), Str("even"), Str("mark"), Str("odd"), Str("space")}
FLOWCONTROLS == <<"xon", "xoff", "xany", "rtscts">>
defaultSettings ==
    [baudRate |-> Num(9600), autoOpen |-> TRUE, parity |-> Str("none"),
     xon |-> Bool(FALSE), xoff |-> Bool(FALSE), xany |-> Bool(FALSE),
     rtscts |-> Bool(FALSE), dataBits |-> Num(8), stopBits |-> Num(10),
     lock |-> TRUE]
\* the settings callers construct a SerialPort with: the defaults, with
\* autoOpen on or off, and the defaults but for one value the constructor
\* refuses
Settings ==
    UNION {{[defaultSettings EXCEPT !.autoOpen = a],
            [defaultSettings EXCEPT !.autoOpen = a, !.baudRate = Str("9600")],
            [defaultSettings EXCEPT !.autoOpen = a, !.dataBits = Num(9)],
            [defaultSettings EXCEPT !.autoOpen = a, !.stopBits = Num(30)],
            [defaultSettings EXCEPT !.autoOpen = a, !.parity = Str("any")],
            [defaultSettings EXCEPT !.autoOpen = a, !.xon = Num(0)],
            [defaultSettings EXCEPT !.autoOpen = a, !.rtscts = Str("on")]}
           : a \in BOOLEAN}
\* the paths callers construct a SerialPort with
CtorPaths == {"", testPort}

\* a plausible slip: the check of the data bits is left out
InvalidButDataBits(path, settings) ==
    IF path = "" THEN "No path specified"
    ELSE IF settings.baudRate.t # "number" THEN "Invalid baudRate"
    ELSE IF settings.stopBits \notin STOPBITS THEN "Invalid stopbits"
    ELSE IF settings.parity \notin PARITY THEN "Invalid parity"
    ELSE IF \E i \in 1 .. Len(FLOWCONTROLS) :
                settings[FLOWCONTROLS[i]].t # "boolean"
      THEN "Invalid flow control is not boolean"
    ELSE "none"

\* the checks of the constructor, in its order: the TypeError it throws
Invalid(path, settings) ==
    IF path = "" THEN "No path specified"
    ELSE IF settings.baudRate.t # "number" THEN "Invalid baudRate"
    ELSE IF settings.dataBits \notin DATABITS THEN "Invalid databits"
    ELSE IF settings.stopBits \notin STOPBITS THEN "Invalid stopbits"
    ELSE IF settings.parity \notin PARITY THEN "Invalid parity"
    ELSE IF \E i \in 1 .. Len(FLOWCONTROLS) :
                settings[FLOWCONTROLS[i]].t # "boolean"
      THEN "Invalid flow control is not boolean"
    ELSE "none"

\* no SerialPort object constructed
NoSerialPort ==
    [made |-> FALSE, path |-> "", fd |-> Null, opening |-> FALSE,
     baudRate |-> 0, lock |-> FALSE, autoOpen |-> FALSE, closed |-> Null,
     listeners |-> <<>>]
NoWrites == [writing |-> FALSE, buffered |-> <<>>]
NoRun == [cb |-> [of |-> "none", fn |-> "none"], err |-> "none",
          val |-> Undefined, info |-> {}]
\* a step of the SerialPort object: the method or completion function that
\* ran, whether the caller gave a callback, the arguments of a construction,
\* and in order the binding calls made, the notifications emitted and the
\* caller's callback invocations, and what was thrown
NoDid == [op |-> "none", cb |-> FALSE, path |-> "", settings |-> defaultSettings,
          calls |-> <<>>, emits |-> <<>>, cbs |-> <<>>, threw |-> "none"]

\* a plausible slip: a port that is opening counts as open
isOpenOrOpening == sp.fd # Null \/ sp.opening

\* get isOpen: this.fd !== null
isOpen == sp.fd # Null

\* the completion function a SerialPort method hands to the binding: it
\* closes over the caller's callback, if one was given
SpCb(op, callback) == [of |-> op, fn |-> IF callback THEN "spcb" ELSE "sp"]
\* the callback the stream hands to _write
StreamCb == [of |-> "write", fn |-> "stream"]
\* does the completion function close over a callback of the caller?
HasCallback(cb) == cb.fn = "spcb"

\* this.emit(name, err), recorded in the step d
emit(d, name, err) ==
    [d EXCEPT !.emits = Append(@, [name |-> name, err |-> err])]
\* callback.call(this, err), recorded in the step d
call(d, err) == [d EXCEPT !.cbs = Append(@, err)]
\* a binding call, recorded in the step d
Called(d, op, fd) == [d EXCEPT !.calls = Append(@, [op |-> op, fd |-> fd])]

\* a plausible slip: the error is emitted although a callback was given
_errorAlwaysEmits(d, error, callback) ==
    IF callback THEN emit(call(d, error), "error", error)
                ELSE emit(d, "error", error)

\* SerialPort.prototype._error
_error(d, error, callback) ==
    IF callback THEN call(d, error) ELSE emit(d, "error", error)

\* a plausible slip: the open is scheduled whatever autoOpen says
AutoOpenAlways(settings) == TRUE

\* if (this.options.autoOpen)
AutoOpen(settings) == settings.autoOpen

\* new SerialPort(path, options, callback)
SerialPort(path, settings, callback) ==
    LET d == [NoDid EXCEPT !.op = "new", !.cb = callback, !.path = path,
                           !.settings = settings]
    IN
    /\ ~sp.made
    /\ IF Invalid(path, settings) # "none"
         THEN /\ did' = [d EXCEPT !.threw = Invalid(path, settings)]
              /\ UNCHANGED <<sp, queue>>
         ELSE /\ sp' = [made |-> TRUE, path |-> path, fd |-> Null,
                        opening |-> FALSE, baudRate |-> settings.baudRate.n,
                        lock |-> settings.lock,
                        autoOpen |-> settings.autoOpen, closed |-> Null,
                        listeners |-> <<>>]
              /\ did' = d
              /\ IF AutoOpen(settings)
                   THEN \* process.nextTick(this.open.bind(this, callback))
                        /\ Len(queue) < MaxPending
                        /\ queue' = Append(queue,
                              [NoRun EXCEPT !.cb = SpCb("autoOpen", callback)])
                   ELSE UNCHANGED queue
    /\ last' = NoEvent
    /\ UNCHANGED <<hw, hist, data, ws, run, sent>>

\* a method refuses the call: this._error(new Error(msg), callback)
Refuse(d, msg, callback) ==
    /\ did' = _error(d, msg, callback)
    /\ last' = NoEvent
    /\ UNCHANGED <<hw, queue, hist, sp>>

\* the body of SerialPort.prototype.open; d names the step it runs in
openBody(d, callback) ==
    IF isOpen THEN Refuse(d, "Port is already open", callback)
    ELSE IF sp.opening THEN Refuse(d, "Port is opening", callback)
    ELSE /\ open(sp.path, [lock |-> sp.lock], SpCb("open", callback))
         /\ sp' = [sp EXCEPT !.opening = TRUE]
         /\ did' = LET c == Called(d, "open", Undefined) IN
                    \* the mock runs the completion inside the call on failure
                    IF last'.cb = "sync" THEN _error(c, last'.err, callback)
                                         ELSE c

\* SerialPort.prototype.open
spOpen(callback) ==
    /\ sp.made
    /\ openBody([NoDid EXCEPT !.op = "open", !.cb = callback], callback)
    /\ UNCHANGED <<data, ws, run, sent>>

\* a plausible slip: the handle is kept until the binding has closed it
closeBodyKeepsFd(d, callback) ==
    /\ close(sp.fd, SpCb("close", callback))
    /\ sp' = [sp EXCEPT !.closed = sp.fd]
    /\ did' = Called(d, "close", sp.fd)

\* what close does once it has found the port open: var fd = this.fd;
\* this.fd = null; this.bindings.close(fd, ...)
closeBody(d, callback) ==
    /\ close(sp.fd, SpCb("close", callback))
    /\ sp' = [sp EXCEPT !.fd = Null, !.closed = sp.fd]
    /\ did' = Called(d, "close", sp.fd)

\* SerialPort.prototype.close
spClose(callback) ==
    LET d == [NoDid EXCEPT !.op = "close", !.cb = callback] IN
    /\ sp.made
    /\ IF ~isOpen THEN Refuse(d, "Port is not open", callback)
                  ELSE closeBody(d, callback)
    /\ UNCHANGED <<data, ws, run, sent>>

\* assign({}, defaultSettings, options).baudRate
SettingsBaudRate(options) ==
    IF options.has THEN options.baudRate ELSE defaultSettings.baudRate.n

\* SerialPort.prototype.update
spUpdate(options, callback) ==
    LET d == [NoDid EXCEPT !.op = "update", !.cb = callback]
        baudRate == SettingsBaudRate(options)
    IN
    /\ sp.made
    /\ IF ~isOpen
         THEN Refuse(d, "Port is not open", callback)
         ELSE /\ update(sp.fd, [has |-> TRUE, baudRate |-> baudRate],
                        SpCb("update", callback))
              /\ sp' = [sp EXCEPT !.baudRate = baudRate]
              /\ did' = LET c == Called(d, "update", sp.fd) IN
                         IF last'.threw THEN [c EXCEPT !.threw = last'.err]
                                        ELSE c
    /\ UNCHANGED <<data, ws, run, sent>>

\* SerialPort.prototype.set
spSet(options, callback) ==
    LET d == [NoDid EXCEPT !.op = "set", !.cb = callback] IN
    /\ sp.made
    /\ IF ~isOpen
         THEN Refuse(d, "Port is not open", callback)
         ELSE /\ set(sp.fd, options, SpCb("set", callback))
              /\ did' = Called(d, "set", sp.fd)
              /\ UNCHANGED sp
    /\ UNCHANGED <<data, ws, run, sent>>

\* SerialPort.prototype.flush
spFlush(callback) ==
    LET d == [NoDid EXCEPT !.op = "flush", !.cb = callback] IN
    /\ sp.made
    /\ IF ~isOpen
         THEN Refuse(d, "Port is not open", callback)
         ELSE /\ flush(sp.fd, SpCb("flush", callback))
              /\ did' = Called(d, "flush", sp.fd)
              /\ UNCHANGED sp
    /\ UNCHANGED <<data, ws, run, sent>>

\* SerialPort.prototype.drain
spDrain(callback) ==
    LET d == [NoDid EXCEPT !.op = "drain", !.cb = callback] IN
    /\ sp.made
    /\ IF ~isOpen
         THEN Refuse(d, "Port is not open", callback)
         ELSE /\ drain(sp.fd, SpCb("drain", callback))
              /\ did' = Called(d, "drain", sp.fd)
              /\ UNCHANGED sp
    /\ UNCHANGED <<data, ws, run, sent>>

\* a plausible slip: 'close' is notified on the spot, ahead of 'disconnect'
disconnectedBodyCloseFirst(d, err) ==
    closeBody(emit(emit(d, "close", "none"), "disconnect", err), FALSE)

\* a plausible slip: the port is taken for closed without telling the binding
disconnectedBodyNoBinding(d, err) ==
    /\ sp' = [sp EXCEPT !.fd = Null, !.closed = sp.fd]
    /\ did' = emit(emit(d, "disconnect", err), "close", "none")
    /\ last' = NoEvent
    /\ UNCHANGED <<hw, queue, hist>>

\* what _disconnected does once it has found a handle:
\* this.emit('disconnect', err); this.close()
disconnectedBody(d, err) == closeBody(emit(d, "disconnect", err), FALSE)

\* SerialPort.prototype._disconnected
_disconnected(err) ==
    LET d == [NoDid EXCEPT !.op = "_disconnected"] IN
    /\ sp.made
    /\ IF sp.fd = Null
         THEN /\ did' = d
              /\ last' = NoEvent
              /\ UNCHANGED <<hw, queue, hist, sp>>
         ELSE disconnectedBody(d, err)
    /\ UNCHANGED <<data, ws, run, sent>>

\* ---------------------------------------------------------------- stream
\* this.portReader: the assignment in open's completion is commented out,
\* so the property is never set
portReader == Undefined

\* a plausible slip: the chunk goes to the binding whether the port is open
\* or not
_writeUngated(s, d, n, chunk) ==
    /\ write(s.fd, chunk, StreamCb)
    /\ sp' = s
    /\ did' = Called(d, "write", s.fd)
    /\ sent' = [n |-> n, bytes |-> sent.bytes \o chunk]

\* SerialPort.prototype._write, on the SerialPort object as the step has
\* left it so far (s), in the step d, with n chunks submitted so far
_write(s, d, n, chunk) ==
    IF s.fd = Null
      THEN \* this.once('open', function() { this._write(...) })
           /\ Len(s.listeners) < MaxListeners
           /\ sp' = [s EXCEPT !.listeners =
                        Append(@, [fn |-> "_write", chunk |-> chunk])]
           /\ did' = d
           /\ last' = NoEvent
           /\ sent' = [n |-> n, bytes |-> sent.bytes]
           /\ UNCHANGED <<hw, queue, hist>>
      ELSE /\ write(s.fd, chunk, StreamCb)
           /\ sp' = s
           /\ did' = Called(d, "write", s.fd)
           /\ sent' = [n |-> n, bytes |-> sent.bytes \o chunk]

\* Buffer.concat(data)
RECURSIVE Concat(_)
Concat(chunks) ==
    IF chunks = <<>> THEN <<>> ELSE Head(chunks) \o Concat(Tail(chunks))

\* SerialPort.prototype._writev
_writev(s, d, n, chunks) == _write(s, d, n, Concat(chunks))

\* sp.write(chunk) of the stream: the chunk goes to _write when no _write
\* awaits its callback, and is buffered otherwise; the k-th chunk submitted
\* holds the byte k
spWrite ==
    LET chunk == <<sent.n + 1>>
        d == [NoDid EXCEPT !.op = "write"]
    IN
    /\ sp.made
    /\ sent.n < MaxWrites
    /\ IF ws.writing
         THEN /\ ws' = [ws EXCEPT !.buffered = Append(@, chunk)]
              /\ sent' = [sent EXCEPT !.n = @ + 1]
              /\ did' = d
              /\ last' = NoEvent
              /\ UNCHANGED <<hw, queue, hist, sp>>
         ELSE /\ ws' = [ws EXCEPT !.writing = TRUE]
              /\ _write(sp, d, sent.n + 1, chunk)
    /\ UNCHANGED <<data, run>>

\* SerialPort.prototype._read, called by the stream when its reader wants
\* bytes: there is no return after once('open', ...), so requestBytes is
\* reached in either case, on a portReader that is undefined
_read ==
    LET d == [NoDid EXCEPT !.op = "_read"] IN
    /\ sp.made
    /\ IF ~isOpen
         THEN /\ Len(sp.listeners) < MaxListeners
              /\ sp' = [sp EXCEPT !.listeners =
                           Append(@, [fn |-> "_read", chunk |-> <<>>])]
         ELSE UNCHANGED sp
    /\ did' = IF portReader = Undefined
                THEN [d EXCEPT !.threw = "TypeError"]
                ELSE Called(d, "requestBytes", sp.fd)
    /\ last' = NoEvent
    /\ UNCHANGED <<hw, queue, hist, data, ws, run, sent>>

\* ---------------------------------------------------------------- nextTick
\* node takes the oldest callback off the nextTick queue to run it
takeNextTick ==
    /\ run = NoRun
    /\ queue # <<>>
    /\ Head(queue).cb.fn # "test"
    /\ run' = Head(queue)
    /\ queue' = Tail(queue)
    /\ did' = [NoDid EXCEPT !.op = "nextTick"]
    /\ last' = NoEvent
    /\ UNCHANGED <<hw, hist, data, sp, ws, sent>>

\* the position of the first _read listener, or 0
FirstRead(ls) ==
    IF \E i \in 1 .. Len(ls) : ls[i].fn = "_read"
      THEN CHOOSE i \in 1 .. Len(ls) :
             ls[i].fn = "_read" /\ \A j \in 1 .. i - 1 : ls[j].fn # "_read"
      ELSE 0

\* a plausible slip: the completion leaves opening set
OpenedStillOpening(s, fd) == [s EXCEPT !.fd = fd]

\* this.fd = fd; this.opening = false
Opened(s, fd) == [s EXCEPT !.fd = fd, !.opening = FALSE]

\* the completion function open hands to the binding, called with (err, fd)
openCompletion ==
    LET d == [NoDid EXCEPT !.op = "open:done", !.cb = HasCallback(run.cb)]
        callback == HasCallback(run.cb)
        ls == sp.listeners
        r == FirstRead(ls)
        \* the listeners emit('open') runs: up to the first one that throws
        ran == IF r = 0 THEN ls ELSE SubSeq(ls, 1, r)
        kept == IF r = 0 THEN <<>> ELSE SubSeq(ls, r + 1, Len(ls))
        writes == SelectSeq(ran, LAMBDA l : l.fn = "_write")
        s == [Opened(sp, run.val) EXCEPT !.listeners = kept]
        e == emit(d, "open", "none")
        \* the listener that calls _read throws out of emit('open'): the
        \* callback of open is not reached
        f == IF r # 0 THEN [e EXCEPT !.threw = "TypeError"]
             ELSE IF callback THEN call(e, "none") ELSE e
    IN
    IF run.err # "none"
      THEN /\ did' = _error(d, run.err, callback)
           /\ last' = NoEvent
           /\ UNCHANGED <<hw, queue, hist, sp, sent>>
      ELSE IF writes = <<>>
      THEN /\ sp' = s
           /\ did' = f
           /\ last' = NoEvent
           /\ UNCHANGED <<hw, queue, hist, sent>>
      ELSE \* the stream has one _write outstanding at most
           /\ Len(writes) = 1
           /\ _write(s, f, sent.n, writes[1].chunk)

\* the completion function close, update, set, flush and drain hand to the
\* binding, called with (err)
methodCompletion ==
    LET callback == HasCallback(run.cb)
        d == [NoDid EXCEPT !.op = run.cb.of \o ":done", !.cb = callback]
        e == IF run.cb.of = "close" THEN emit(d, "close", "none") ELSE d
    IN
    /\ did' = IF run.err # "none" THEN _error(d, run.err, callback)
               ELSE IF callback THEN call(e, "none") ELSE e
    /\ last' = NoEvent
    /\ UNCHANGED <<hw, queue, hist, sp, sent>>

\* the callback the stream handed to _write: a failed write is notified as
\* 'error'; otherwise the chunks buffered meanwhile go to _writev when
\* there are several and to _write when there is one
writeCompletion ==
    LET d == [NoDid EXCEPT !.op = "write:done"] IN
    IF run.err # "none" \/ ws.buffered = <<>>
      THEN /\ ws' = [ws EXCEPT !.writing = FALSE]
           /\ did' = IF run.err # "none" THEN emit(d, "error", run.err) ELSE d
           /\ last' = NoEvent
           /\ UNCHANGED <<hw, queue, hist, sp, sent>>
      ELSE /\ ws' = [ws EXCEPT !.buffered = <<>>]
           /\ IF Len(ws.buffered) > 1
                THEN _writev(sp, d, sent.n, ws.buffered)
                ELSE _write(sp, d, sent.n, ws.buffered[1])

\* the callback taken off the queue runs to its end
runCallback ==
    /\ run # NoRun
    /\ run' = NoRun
    /\ CASE run.cb.of = "autoOpen" ->
               /\ openBody([NoDid EXCEPT !.op = "autoOpen",
                                         !.cb = HasCallback(run.cb)],
                           HasCallback(run.cb))
               /\ UNCHANGED <<ws, sent>>
         [] run.cb.of = "open" -> openCompletion /\ UNCHANGED ws
         [] run.cb.of = "write" -> writeCompletion
         [] OTHER -> methodCompletion /\ UNCHANGED ws
    /\ UNCHANGED data

\* ---------------------------------------------------------------- behaviours
\* new MockBindings()
Init ==
    /\ nextFd = 0
    /\ fds = EmptyMap
    /\ ports = EmptyMap
    /\ objs = <<>>
    /\ queue = <<>>
    /\ last = NoEvent
    /\ hist = EmptyMap
    /\ data = CallerData
    /\ sp = NoSerialPort
    /\ ws = NoWrites
    /\ run = NoRun
    /\ did = NoDid
    /\ sent = [n |-> 0, bytes |-> <<>>]

\* the registry operations: registration, open and close, and the queue
Registry ==
    \/ createPort(testPort) /\ UNCHANGED app
    \/ \E path \in Paths, opt \in OpenOpts :
          open(path, opt, Cb("open")) /\ UNCHANGED app
    \/ \E fd \in Fds : close(fd, Cb("close")) /\ UNCHANGED app
    \/ runNextTick /\ UNCHANGED app

Next ==
    \/ reset /\ UNCHANGED app
    \/ Registry
    \/ \E path \in Paths, chunk \in DataChunks :
          emitData(path, chunk) /\ UNCHANGED app
    \/ \E fd \in Fds, opt \in UpdateOpts :
          update(fd, opt, Cb("update")) /\ UNCHANGED app
    \/ \E fd \in Fds, buffer \in Buffers :
          write(fd, buffer, Cb("write")) /\ UNCHANGED app
    \/ \E fd \in Fds : flush(fd, Cb("flush")) /\ UNCHANGED app
    \/ \E fd \in Fds : set(fd, defaultSetFlags, Cb("set")) /\ UNCHANGED app
    \/ \E fd \in Fds : drain(fd, Cb("drain")) /\ UNCHANGED app
    \/ list(Cb("list")) /\ UNCHANGED app

\* writes of the Buffer the caller keeps and changes afterwards, and of
\* Buffers made for the call, next to every operation that takes a handle
Writes ==
    \/ Registry
    \/ \E fd \in Fds : write(fd, data, Cb("write")) /\ UNCHANGED app
    \/ \E fd \in Fds, buffer \in Buffers :
          write(fd, buffer, Cb("write")) /\ UNCHANGED app
    \/ \E v \in FillBytes : fill(v) /\ UNCHANGED <<sp, ws, run, did, sent>>
    \/ \E fd \in Fds : flush(fd, Cb("flush")) /\ UNCHANGED app
    \/ \E fd \in Fds : drain(fd, Cb("drain")) /\ UNCHANGED app

\* no nextTick callback is running: the calls of a caller happen between two
\* callbacks
Idle == run = NoRun
\* a step that is none of the SerialPort object's
Outside == did' = NoDid /\ UNCHANGED <<data, sp, ws, run, sent>>

\* the life of the SerialPort object on the mock binding: the registration of
\* its path, its construction, open and close with and without a callback,
\* and the nextTick queue
Lifecycle ==
    \/ Idle /\ createPort(testPort) /\ Outside
    \/ \E path \in CtorPaths, settings \in Settings, callback \in BOOLEAN :
          Idle /\ SerialPort(path, settings, callback)
    \/ \E callback \in BOOLEAN : Idle /\ spOpen(callback)
    \/ \E callback \in BOOLEAN : Idle /\ spClose(callback)
    \/ takeNextTick
    \/ runCallback

\* the methods of the SerialPort object, a read request of the stream, a
\* disconnect report, and another user of the binding closing a handle
Port ==
    \/ Lifecycle
    \/ \E options \in UpdateOpts, callback \in BOOLEAN :
          Idle /\ spUpdate(options, callback)
    \/ \E callback \in BOOLEAN : Idle /\ spSet(defaultSetFlags, callback)
    \/ \E callback \in BOOLEAN : Idle /\ spFlush(callback)
    \/ \E callback \in BOOLEAN : Idle /\ spDrain(callback)
    \/ Idle /\ _disconnected("disconnected")
    \/ Idle /\ _read
    \/ \E path \in Paths : Idle /\ disconnect(path) /\ Outside
    \/ \E fd \in Fds : Idle /\ close(fd, Cb("close")) /\ Outside
    \/ Idle /\ queue # <<>> /\ Head(queue).cb.fn = "test"
         /\ runNextTick /\ Outside

\* disconnect reports in the life of a SerialPort object that owns its handle
Disconnects ==
    \/ Lifecycle
    \/ Idle /\ _disconnected("disconnected")
    \/ \E path \in Paths : Idle /\ disconnect(path) /\ Outside

\* the stream side of the SerialPort object: the stream's calls of _write
\* and _read next to its life
Stream ==
    \/ Lifecycle
    \/ Idle /\ spWrite
    \/ Idle /\ _read

\* every operation of the binding, in any order
Spec == Init /\ [][Next]_vars

\* the SerialPort object driven by its caller
SpecPort == Init /\ [][Port]_vars

\* a SerialPort object that owns its handle and is told of disconnects; node
\* runs every callback on the nextTick queue
SpecDisconnect ==
    /\ Init /\ [][Disconnects]_vars
    /\ WF_vars(takeNextTick) /\ WF_vars(runCallback)

\* the SerialPort object written to and read from as a stream
SpecStream == Init /\ [][Stream]_vars

\* the life of a SerialPort object alone: constructed, opened, closed, its
\* callbacks run
SpecLifecycle == Init /\ [][Lifecycle]_vars

\* writes submitted to the SerialPort object in the course of its life
Writing ==
    \/ Lifecycle
    \/ Idle /\ spWrite

\* the SerialPort object written to; node runs every callback on the nextTick
\* queue, and nothing makes the caller call again
SpecWriting ==
    /\ Init /\ [][Writing]_vars
    /\ WF_vars(takeNextTick) /\ WF_vars(runCallback)

\* registration, open, close, write, flush and drain, and the caller
\* changing the Buffer it wrote
SpecWrite == Init /\ [][Writes]_vars

\* any sequence of createPort, open and close
SpecRegistry == Init /\ [][Registry]_vars
\* ---------------------------------------------------------------- claims
\* the handle was returned by open and close has not yet succeeded on it
IsOpen(fd) == fd \in DOMAIN hist /\ hist[fd].open
\* the handles open on port object e
OpenOn(e) == {h \in DOMAIN hist : hist[h].open /\ hist[h].port = e}
\* the same after the step
OpenOnNext(e) == {h \in DOMAIN hist' : hist'[h].open /\ hist'[h].port = e}
\* the handles open has ever returned for port object e
IssuedOn(e) == {h \in DOMAIN hist : hist[h].port = e}
\* the completion callLater puts on the queue for operation op
Queued(op, err, val) == [cb |-> Cb(op), err |-> err, val |-> val, info |-> {}]

\* C1: while a handle that was opened with lock=true on the entry registered
\* under a path is still open, an open of that path with lock=true fails with
\* the lock error, yields no handle and leaves the binding (so the first
\* handle) as it was; once every handle of the entry is closed, the same open
\* succeeds with a new open handle.
C1_LockedThenReopen ==
    [][(last'.op = "open" /\ last'.lock /\ last'.path \in DOMAIN ports) =>
        LET e == ports[last'.path] IN
        /\ (\E h \in OpenOn(e) : hist[h].lock) =>
             /\ last'.err = "port is locked cannot open"
             /\ last'.val = Undefined
             /\ hw' = hw /\ hist' = hist /\ queue' = queue
        /\ OpenOn(e) = {} =>
             /\ last'.err = "none"
             /\ last'.val \notin DOMAIN hist
             /\ last'.val \in DOMAIN fds'
             /\ OpenOnNext(e) = {last'.val}
             /\ queue' = Append(queue, Queued("open", "none", last'.val))
      ]_vars

\* C1 witness: a locking open has just been refused while the handle that
\* was opened with lock=true on that path is open
C1_Witness ==
    /\ last.op = "open" /\ last.lock
    /\ last.err = "port is locked cannot open"
    /\ last.path \in DOMAIN ports
    /\ \E h \in OpenOn(ports[last.path]) : hist[h].lock /\ h \in DOMAIN fds

\* C2 as stated: a handle opened with lock=true that is open is the only
\* open handle of its entry.
C2_Original ==
    \A h \in DOMAIN hist :
        (hist[h].open /\ hist[h].lock) => OpenOn(hist[h].port) = {h}

\* C2 amended: while a handle opened with lock=true is open, no handle is
\* opened on its entry after it: every other open handle of the entry was
\* opened before it.
C2_NoOpenAfterLock ==
    \A h \in DOMAIN hist :
        (hist[h].open /\ hist[h].lock) =>
            \A g \in OpenOn(hist[h].port) : g <= h

\* C2 witness: a handle opened with lock=true is open next to an older one
C2_Witness ==
    \E h \in DOMAIN hist :
        /\ hist[h].open /\ hist[h].lock
        /\ \E g \in OpenOn(hist[h].port) : g < h

\* C3 as stated: an open of a registered path with lock=false succeeds.
C3_Original ==
    (last.op = "open" /\ ~last.lock /\ last.path \in DOMAIN ports) =>
        (last.err = "none" /\ IsOpen(last.val))

\* the handle the most recent successful open of port object e returned
MostRecentOn(e) == CHOOSE h \in IssuedOn(e) : \A g \in IssuedOn(e) : g <= h

\* C3 amended: an open of a registered path with lock=false succeeds with a
\* new handle when the entry has no open handle or the most recent successful
\* open of the entry requested lock=false; when the entry has an open handle
\* and its most recent successful open requested lock=true, it fails with
\* the lock error and changes nothing.
C3_NonLockingOpen ==
    [][(last'.op = "open" /\ ~last'.lock /\ last'.path \in DOMAIN ports) =>
        LET e == ports[last'.path] IN
        IF OpenOn(e) # {} /\ hist[MostRecentOn(e)].lock
          THEN /\ last'.err = "port is locked cannot open"
               /\ last'.val = Undefined
               /\ hw' = hw /\ hist' = hist /\ queue' = queue
          ELSE /\ last'.err = "none"
               /\ last'.val \notin DOMAIN hist
               /\ OpenOnNext(e) = OpenOn(e) \cup {last'.val}
               /\ queue' = Append(queue, Queued("open", "none", last'.val))
      ]_vars

\* C3 witness: a non-locking open has just succeeded on a path that has
\* another open handle
C3_Witness ==
    /\ last.op = "open" /\ ~last.lock /\ last.err = "none"
    /\ last.path \in DOMAIN ports
    /\ OpenOn(ports[last.path]) \ {last.val} # {}

\* C5: close of a handle that open never returned, or on which close has
\* already succeeded, changes no binding state and defers the error to its
\* callback, which the queue then delivers.
C5_CloseInvalid ==
    [][/\ (last'.op = "close" /\ ~IsOpen(last'.fd)) =>
            /\ last'.err = "fd is already closed"
            /\ hw' = hw /\ hist' = hist
            /\ queue' = Append(queue,
                               Queued("close", "fd is already closed", Undefined))
       /\ (last'.op = "nextTick" /\ Head(queue).cb.of = "close") =>
            /\ last'.cbop = "close" /\ last'.err = Head(queue).err
            /\ hw' = hw /\ hist' = hist
      ]_vars

\* C5 witness: the second close of a handle has just been refused
C5_Witness ==
    /\ last.op = "close" /\ last.err = "fd is already closed"
    /\ last.fd \in DOMAIN hist /\ ~hist[last.fd].open

\* C6: open of a path that is not registered fails with the missing-port
\* error, hands over no handle, queues nothing and leaves the counter, the
\* handle map and every entry unchanged.
C6_OpenMissing ==
    [][(last'.op = "open" /\ last'.path \notin DOMAIN ports) =>
        /\ last'.err = "MissingPortError"
        /\ last'.val = Undefined
        /\ hw' = hw /\ hist' = hist /\ queue' = queue
      ]_vars

\* C6 witness: an open of an unregistered path has just failed while the
\* registry holds an entry with an open handle
C6_Witness ==
    /\ last.op = "open" /\ last.err = "MissingPortError"
    /\ last.path \notin DOMAIN ports
    /\ DOMAIN fds # {} /\ nextFd > 0

\* C7: each successful open returns a handle greater than every handle
\* returned before; the first one is 0.
C7_Monotonic ==
    [][(last'.op = "open" /\ last'.err = "none") =>
        /\ \A h \in DOMAIN hist : last'.val > h
        /\ hist = EmptyMap => last'.val = 0
      ]_vars

\* C7 witness: the open after the close of handle 0 has returned handle 1
C7_Witness ==
    /\ last.op = "open" /\ last.err = "none" /\ last.val = 1
    /\ 0 \in DOMAIN hist /\ ~hist[0].open

\* C4: with two handles open on one entry, close of one removes only that
\* handle: every other handle stays open in the handle map and in its
\* entry, the path keeps its entry, and no entry's inbound data or
\* last-write slot changes.
C4_CloseOneOfTwo ==
    [][(last'.op = "close" /\ IsOpen(last'.fd)
          /\ OpenOn(hist[last'.fd].port) \ {last'.fd} # {}) =>
        LET fd == last'.fd
            e == hist[fd].port
        IN
        /\ last'.err = "none"
        /\ fd \notin DOMAIN fds'
        /\ OpenOnNext(e) = OpenOn(e) \ {fd}
        /\ \A g \in DOMAIN fds \ {fd} : g \in DOMAIN fds' /\ fds'[g] = fds[g]
        /\ {objs'[e].fds[i] : i \in 1 .. Len(objs'[e].fds)} = OpenOn(e) \ {fd}
        /\ ports' = ports /\ nextFd' = nextFd
        /\ Len(objs') = Len(objs)
        /\ \A i \in 1 .. Len(objs) :
              /\ objs'[i].data = objs[i].data
              /\ objs'[i].lastWrite = objs[i].lastWrite
              /\ i # e => objs'[i] = objs[i]
      ]_vars

\* C4 witness: one of two handles of an entry has just been closed, the
\* other is open, and the entry holds inbound data and a last write
C4_Witness ==
    /\ last.op = "close" /\ last.err = "none"
    /\ last.fd \in DOMAIN hist
    /\ OpenOn(hist[last.fd].port) # {}
    /\ objs[hist[last.fd].port].data # <<>>
    /\ ~objs[hist[last.fd].port].lastWrite.isNull

\* C8: no operation invokes its completion callback inside the call that
\* started it.
C8_NeverSynchronous == last.cb # "sync"

\* C9: update with options that carry no baud rate throws, whatever the
\* handle, queues no callback and changes nothing.
C9_UpdateThrows ==
    [][(last'.op = "update" /\ ~last'.has) =>
        /\ last'.threw
        /\ last'.cb = "none"
        /\ queue' = queue
        /\ hw' = hw /\ hist' = hist
      ]_vars

\* C9 witness: update without a baud rate has just thrown on an open handle
C9_Witness ==
    /\ last.op = "update" /\ ~last.has /\ last.threw
    /\ IsOpen(last.fd)

\* C10: update with a (positive) baud rate, write, drain, flush and set on a
\* handle that is not open defer an error to the callback and leave the
\* binding unchanged; on an open handle they defer a success.
C10_HandleChecked ==
    [][(/\ last'.op \in {"update", "write", "drain", "flush", "set"}
        /\ last'.op = "update" => (last'.has /\ last'.baud > 0)) =>
        IF IsOpen(last'.fd)
          THEN /\ last'.err = "none"
               /\ queue' = Append(queue,
                    Queued(last'.op, "none",
                           IF last'.op = "write" THEN Len(last'.buf)
                                                 ELSE Undefined))
          ELSE /\ last'.err = "MissingPortError"
               /\ queue' = Append(queue,
                    Queued(last'.op, "MissingPortError", Undefined))
               /\ hw' = hw /\ hist' = hist
      ]_vars

\* C10 witness: a write on a handle that is not open has just been refused
\* while an entry holds an earlier write
C10_Witness ==
    /\ last.op = "write" /\ last.err = "MissingPortError"
    /\ ~IsOpen(last.fd)
    /\ \E i \in 1 .. Len(objs) : ~objs[i].lastWrite.isNull

\* C11: a write on an open handle leaves in the last-write slot of the
\* handle's entry exactly the bytes given and defers a callback reporting
\* their count; a slot changes in no other step: not when the caller changes
\* its Buffer afterwards, and not by a write on a handle of another entry.
C11_LastWriteCopy ==
    [][/\ (last'.op = "write" /\ IsOpen(last'.fd)) =>
            /\ ~objs'[hist[last'.fd].port].lastWrite.isNull
            /\ objs'[hist[last'.fd].port].lastWrite.bytes = last'.buf
            /\ queue' = Append(queue, Queued("write", "none", Len(last'.buf)))
       /\ \A i \in 1 .. Len(objs) :
            objs'[i].lastWrite.bytes # objs[i].lastWrite.bytes =>
                /\ last'.op = "write" /\ IsOpen(last'.fd)
                /\ hist[last'.fd].port = i
      ]_vars

\* C11 witness: the caller has just changed the Buffer it wrote, and the
\* slot still holds the bytes written
C11_Witness ==
    /\ last.op = "fill" /\ data # CallerData
    /\ \E i \in 1 .. Len(objs) :
          /\ ~objs[i].lastWrite.isNull
          /\ objs[i].lastWrite.bytes = CallerData
          /\ Len(data) > 0

\* the step d has reported err the way _error does: to the callback when
\* one was given, as an 'error' notification otherwise
Reported(d, err) ==
    IF d.cb THEN d.cbs = <<err>> /\ d.emits = <<>>
            ELSE d.cbs = <<>> /\ d.emits = <<[name |-> "error", err |-> err]>>
\* the step has left the binding and the queue alone and has thrown nothing
BindingUntouched ==
    /\ did'.calls = <<>> /\ did'.threw = "none"
    /\ hw' = hw /\ hist' = hist /\ queue' = queue /\ sp' = sp
\* the methods gated on isOpen
OpenOnly == {"update", "set", "flush", "drain", "close"}
\* the binding operations the step d called
CalledOps(d) == {d.calls[i].op : i \in 1 .. Len(d.calls)}

\* C12: open (also the scheduled one of autoOpen) calls the binding only when
\* the port is neither open nor opening: while open it reports 'Port is
\* already open', while opening 'Port is opening'; update, set, flush, drain
\* and close call the binding only when the port is open and report 'Port is
\* not open' otherwise; a refused call leaves the binding uncalled and
\* throws nothing; and no step at all calls the binding's open on a port
\* that is open or opening, or another operation with no handle.
C12_StateGating ==
    [][/\ did'.op \in {"open", "autoOpen"} =>
            /\ sp.fd # Null =>
                 Reported(did', "Port is already open") /\ BindingUntouched
            /\ (sp.fd = Null /\ sp.opening) =>
                 Reported(did', "Port is opening") /\ BindingUntouched
            /\ (sp.fd = Null /\ ~sp.opening) => did'.calls # <<>>
       /\ did'.op \in OpenOnly =>
            /\ sp.fd = Null =>
                 Reported(did', "Port is not open") /\ BindingUntouched
            /\ sp.fd # Null =>
                 did'.calls = <<[op |-> did'.op, fd |-> sp.fd]>>
       /\ "open" \in CalledOps(did') => (sp.fd = Null /\ ~sp.opening)
       /\ \A i \in 1 .. Len(did'.calls) :
            did'.calls[i].op \in OpenOnly =>
                (sp.fd # Null /\ did'.calls[i].fd = sp.fd)
      ]_vars

\* C12 witness: a second open has just been refused with 'Port is opening'
\* while the completion of the first is pending
C12_Witness ==
    /\ did.op = "open" /\ did.cbs = <<"Port is opening">>
    /\ sp.opening /\ sp.fd = Null
    /\ \E i \in 1 .. Len(queue) : queue[i].cb.of = "open"

\* C13: a state error of open, close, update, set, flush or drain, and an
\* error the binding reports to the completion function of one of them, goes
\* to the caller's callback and is not notified when a callback was given,
\* and is notified as 'error' when none was given: one of the two, never
\* both, never neither.
C13_CallbackOrEvent ==
    [][/\ (did'.op \in {"open", "autoOpen"} /\ (sp.fd # Null \/ sp.opening)) =>
            Reported(did', IF sp.fd # Null THEN "Port is already open"
                                          ELSE "Port is opening")
       /\ (did'.op \in OpenOnly /\ sp.fd = Null) =>
            Reported(did', "Port is not open")
       /\ (did'.op \in {"open", "autoOpen"} /\ did'.calls # <<>>
             /\ last'.err # "none") =>
            Reported(did', last'.err)
       /\ (run # NoRun /\ run.cb.of \in OpenOnly \cup {"open"}
             /\ run.err # "none") =>
            /\ did'.cb = HasCallback(run.cb)
            /\ Reported(did', run.err)
       /\ (run # NoRun /\ run.cb.of \in OpenOnly \cup {"open"}
             /\ run.err = "none") =>
            /\ \A i \in 1 .. Len(did'.emits) : did'.emits[i].name # "error"
            /\ did'.cbs = IF HasCallback(run.cb) /\ did'.threw = "none"
                            THEN <<"none">> ELSE <<>>
      ]_vars

\* C13 witness: the binding's error for a close without a callback has just
\* been notified as 'error'
C13_Witness ==
    /\ did.op = "close:done" /\ ~did.cb
    /\ did.emits = <<[name |-> "error", err |-> "fd is already closed"]>>
    /\ did.cbs = <<>>

\* the bytes 1 .. n in order: what the first n chunks submitted hold
Submitted(n) == [i \in 1 .. n |-> i]
\* the once('open') listeners of _write calls
WriteListeners(s) == SelectSeq(s.listeners, LAMBDA l : l.fn = "_write")

\* C14: a chunk goes to the binding's write only in a step that leaves the
\* port open; the bytes handed to the binding are at every moment the first
\* bytes submitted, each once and in submission order; and the step in which
\* open completes hands the chunk that waited for it to the binding.
C14_DeferredWrites ==
    [][/\ "write" \in CalledOps(did') => sp'.fd # Null
       /\ Len(sent'.bytes) <= sent'.n
       /\ sent'.bytes = SubSeq(Submitted(sent'.n), 1, Len(sent'.bytes))
       /\ (did'.op = "open:done" /\ run.err = "none") =>
            \A i \in 1 .. Len(WriteListeners(sp)) :
                sent'.bytes = sent.bytes \o WriteListeners(sp)[i].chunk
      ]_vars

\* C15: a _read while the port is not open throws nothing and does not
\* reach requestBytes; the step in which open completes invokes requestBytes
\* once for each read that waited for it.
C15_DeferredRead ==
    [][/\ (did'.op = "_read" /\ sp.fd = Null) =>
            /\ did'.threw = "none"
            /\ "requestBytes" \notin CalledOps(did')
       /\ (did'.op = "open:done" /\ run.err = "none") =>
            Len(SelectSeq(did'.calls, LAMBDA c : c.op = "requestBytes"))
              = Len(SelectSeq(sp.listeners, LAMBDA l : l.fn = "_read"))
      ]_vars

\* the completion function of a close that was given no callback
CloseCompletion == [NoRun EXCEPT !.cb = SpCb("close", FALSE)]
\* _disconnected has just acted on a report
DisconnectActed ==
    /\ did.op = "_disconnected"
    /\ did.emits = <<[name |-> "disconnect", err |-> "disconnected"]>>
\* 'close' has just been notified by the completion of a close without callback
CloseNotified ==
    /\ did.op = "close:done" /\ ~did.cb
    /\ did.emits = <<[name |-> "close", err |-> "none"]>>

\* C16: _disconnected with no handle, also after close was called, notifies
\* nothing, calls nothing and changes nothing; with a handle it notifies
\* 'disconnect' with the error and nothing else, leaves the port not open and
\* its close under way; 'close' is notified by the completion of a close
\* only, so after the 'disconnect'; and it does follow.
C16_DisconnectThenClose ==
    /\ [][/\ (did'.op = "_disconnected" /\ sp.fd = Null) =>
               /\ did'.emits = <<>> /\ did'.cbs = <<>>
               /\ BindingUntouched
          /\ (did'.op = "_disconnected" /\ sp.fd # Null) =>
               /\ did'.emits = <<[name |-> "disconnect", err |-> "disconnected"]>>
               /\ sp'.fd = Null
               /\ queue' = Append(queue, CloseCompletion)
          /\ (\E i \in 1 .. Len(did'.emits) : did'.emits[i].name = "close") =>
               did'.op = "close:done"
          ]_vars
    /\ (DisconnectActed ~> CloseNotified)

\* C16 witness: a disconnect report has just been acted on: 'disconnect' is
\* notified, the port is not open and the completion of its close is pending
C16_Witness ==
    /\ DisconnectActed
    /\ sp.fd = Null /\ sp.closed # Null
    /\ queue # <<>> /\ queue[Len(queue)] = CloseCompletion

\* C17 as stated: handling a disconnect does not call the binding's close.
C17_Original ==
    [][did'.op = "_disconnected" => "close" \notin CalledOps(did')]_vars

\* C17 amended: handling a disconnect while a handle is held goes through
\* the port's own close: the handle is given up at once and the binding's
\* close is called once on it, with no callback of the caller, which takes
\* the handle out of the binding.
C17_ClosesThroughBinding ==
    [][(did'.op = "_disconnected" /\ sp.fd # Null) =>
        /\ did'.calls = <<[op |-> "close", fd |-> sp.fd]>>
        /\ last'.op = "close" /\ last'.fd = sp.fd
        /\ sp'.fd = Null
        /\ sp.fd \notin DOMAIN fds'
        /\ queue' = Append(queue, [CloseCompletion EXCEPT !.err = last'.err])
      ]_vars

\* C17 witness: a disconnect has just been handled and the binding no
\* longer holds the handle the port had
C17_Witness ==
    /\ did.op = "_disconnected" /\ did.calls # <<>>
    /\ sp.closed \in DOMAIN hist /\ ~hist[sp.closed].open
    /\ sp.closed \notin DOMAIN fds

\* the nextTick entry the constructor schedules for autoOpen
AutoOpenEntry(callback) == [NoRun EXCEPT !.cb = SpCb("autoOpen", callback)]

\* C18: a construction that succeeds leaves the port not open and not
\* opening, calls no binding operation, notifies nothing and calls no
\* callback; with autoOpen it puts the open on the nextTick queue, without
\* autoOpen it schedules nothing; the scheduled open runs as a nextTick
\* callback, only for a port constructed with autoOpen, and then makes the
\* attempt.
C18_AutoOpenDeferred ==
    [][/\ (did'.op = "new" /\ did'.threw = "none") =>
            /\ sp'.made /\ sp'.fd = Null /\ ~sp'.opening
            /\ did'.calls = <<>> /\ did'.emits = <<>> /\ did'.cbs = <<>>
            /\ hw' = hw /\ hist' = hist
            /\ queue' = IF did'.settings.autoOpen
                          THEN Append(queue, AutoOpenEntry(did'.cb))
                          ELSE queue
       /\ did'.op = "autoOpen" =>
            /\ sp.autoOpen
            /\ run = AutoOpenEntry(did'.cb)
            /\ (sp.fd = Null /\ ~sp.opening) => "open" \in CalledOps(did')
      ]_vars

\* C18 witness: the open scheduled by the constructor has just called the
\* binding, in a nextTick callback
C18_Witness ==
    /\ did.op = "autoOpen" /\ did.calls # <<>>
    /\ sp.autoOpen /\ sp.opening /\ sp.fd = Null

\* the configurations the constructor is to refuse
BadConfig(path, settings) ==
    \/ path = ""
    \/ settings.baudRate.t # "number"
    \/ settings.dataBits.t # "number" \/ settings.dataBits.n \notin {5, 6, 7, 8}
    \/ settings.stopBits.t # "number" \/ settings.stopBits.n \notin {10, 15, 20}
    \/ settings.parity.t # "string"
    \/ settings.parity.s \notin {"none", "even", "mark", "odd", "space"}
    \/ \E f \in {"xon", "xoff", "xany", "rtscts"} : settings[f].t # "boolean"

\* C19: a construction with an empty path, a baud rate that is no number,
\* data bits, stop bits or parity outside the legal values, or a flow-control
\* flag that is no boolean throws, makes no port object, calls no binding
\* operation and schedules nothing, with autoOpen as without.
C19_InvalidConfig ==
    [][(did'.op = "new" /\ BadConfig(did'.path, did'.settings)) =>
        /\ did'.threw # "none"
        /\ ~sp'.made
        /\ did'.calls = <<>>
        /\ queue' = queue /\ hw' = hw /\ hist' = hist
      ]_vars

\* C19 witness: a construction with nine data bits and autoOpen has just
\* thrown and nothing is scheduled
C19_Witness ==
    /\ did.op = "new" /\ did.threw = "Invalid databits"
    /\ did.settings.autoOpen /\ did.settings.dataBits.n = 9
    /\ ~sp.made /\ queue = <<>>

\* a completion of open is running or pending
OpenUnderWay ==
    \/ run.cb.of = "open"
    \/ \E i \in 1 .. Len(queue) : queue[i].cb.of \in {"open", "autoOpen"}

\* C20: once close has taken the handle of an open port, an open with no
\* open under way is accepted, also while the completion of the close is
\* pending: it calls the binding, which returns a handle never returned
\* before; the port is opening only while such an open is under way; and the
\* completion leaves the port open with that handle, which is not the one
\* closed.
C20_Reopen ==
    [][/\ (did'.op \in {"open", "autoOpen"} /\ sp.closed # Null
             /\ sp.fd = Null /\ ~sp.opening) =>
            /\ "open" \in CalledOps(did')
            /\ last'.op = "open" /\ last'.err = "none"
            /\ last'.val \notin DOMAIN hist /\ last'.val # sp.closed
            /\ sp'.opening
            /\ queue' = Append(queue, [NoRun EXCEPT !.cb = SpCb("open", did'.cb),
                                                    !.val = last'.val])
       /\ (sp.closed # Null /\ sp.fd = Null /\ sp.opening) => OpenUnderWay
       /\ (did'.op = "open:done" /\ run.err = "none" /\ sp.closed # Null) =>
            /\ sp'.fd = run.val /\ sp'.fd # sp.closed /\ sp'.fd # Null
            /\ ~sp'.opening
            /\ did'.emits = <<[name |-> "open", err |-> "none"]>>
      ]_vars

\* C20 witness: the port has just become open again, with a handle other
\* than the one it closed
C20_Witness ==
    /\ did.op = "open:done"
    /\ sp.closed # Null /\ sp.fd # Null /\ sp.fd # sp.closed
    /\ ~sp.opening

\* a _write of the stream awaits its callback: the chunk it was given, and
\* every chunk buffered behind it, is submitted and not yet completed
WriteAwaited == ws.writing

\* C21: every write submitted eventually has its callback invoked: whenever
\* a _write awaits its callback there comes a moment when none does, also
\* for a write submitted before the port is open whose open then fails or
\* is never made.
C21_NoDroppedCallback == WriteAwaited ~> ~WriteAwaited

\* the completion of a binding open this port called is pending or running
OpenPending ==
    \/ run.cb.of = "open"
    \/ \E i \in 1 .. Len(queue) : queue[i].cb.of = "open"

\* C22: the port is opening exactly while the completion of a binding open
\* it called is still to be delivered; so an open called on a port that is
\* not open and has no such completion outstanding, also after an open that
\* failed, reaches the binding.
C22_OpeningGuard ==
    /\ [](sp.opening <=> OpenPending)
    /\ [][(did'.op \in {"open", "autoOpen"} /\ sp.fd = Null /\ ~OpenPending) =>
            "open" \in CalledOps(did')]_vars

\* the once('open') listener _write leaves for a chunk
WriteListener(chunk) == [fn |-> "_write", chunk |-> chunk]
\* the completion the binding defers for a write of n bytes that succeeded
WriteDone(n) == [NoRun EXCEPT !.cb = StreamCb, !.val = n]
\* the chunk the step hands to _write, or <<>> when it hands none: the chunk
\* submitted when no _write awaits its callback, and the chunks buffered
\* meanwhile when a _write completes with success
Handed ==
    IF did'.op = "write" /\ ~ws.writing THEN <<sent.n + 1>>
    ELSE IF did'.op = "write:done" /\ run.err = "none" THEN Concat(ws.buffered)
    ELSE <<>>

\* C23: every handle the port passes to the binding is one the binding
\* holds open, so never one the port has closed; a chunk handed to _write
\* while the port is open is recorded by the binding at once and its
\* completion, a success, is queued, so that the completion of a close
\* called later is queued behind it and the queue is served in order; a
\* chunk handed to _write while the port is not open, also after close was
\* called and before its completion, is not passed to the binding but left
\* with a once('open') listener.
C23_WriteCloseRace ==
    [][/\ \A i \in 1 .. Len(did'.calls) :
            did'.calls[i].op # "open" =>
                /\ IsOpen(did'.calls[i].fd)
                /\ did'.calls[i].fd \in {sp.fd, sp'.fd}
       /\ (Handed # <<>> /\ sp.fd # Null) =>
            /\ did'.calls = <<[op |-> "write", fd |-> sp.fd]>>
            /\ objs'[hist[sp.fd].port].lastWrite.bytes = Handed
            /\ queue' = Append(queue, WriteDone(Len(Handed)))
       /\ (Handed # <<>> /\ sp.fd = Null) =>
            /\ did'.calls = <<>>
            /\ sp'.listeners = Append(sp.listeners, WriteListener(Handed))
            /\ queue' = queue /\ hw' = hw
       /\ (did'.op = "close" /\ did'.calls # <<>>) =>
            /\ sp'.fd = Null
            /\ queue' = Append(queue, [NoRun EXCEPT !.cb = SpCb("close", did'.cb)])
       /\ (run = NoRun /\ run' # NoRun) =>
            /\ run' = Head(queue) /\ queue' = Tail(queue)
       /\ (run.cb.of = "write" /\ run.cb.fn = "stream") => run.err = "none"
      ]_vars

\* C23 witness: close was called while a write awaited its callback with a
\* chunk buffered behind it; the write has just completed and the buffered
\* chunk, reaching _write after the close, waits for the next 'open' while
\* the completion of the close is still pending
C23_Witness ==
    /\ did.op = "write:done" /\ did.calls = <<>>
    /\ sp.fd = Null /\ sp.closed # Null
    /\ sp.listeners # <<>>
    /\ sp.listeners[Len(sp.listeners)] = WriteListener(<<sent.n>>)
    /\ \E i \in 1 .. Len(queue) : queue[i].cb.of = "close"

\* C24: at every moment the port reports itself open exactly when its fd is
\* not null, and the fd of an open port is a handle the binding holds: open
\* returned it, no close has succeeded on it, and the binding's handle map
\* gives for it the entry it was opened on, which lists it.
C24_IsOpenHasHandle ==
    sp.made =>
        /\ isOpen <=> sp.fd # Null
        /\ isOpen =>
             /\ IsOpen(sp.fd)
             /\ sp.fd \in DOMAIN fds
             /\ fds[sp.fd] = hist[sp.fd].port
             /\ \E i \in 1 .. Len(objs[fds[sp.fd]].fds) :
                    objs[fds[sp.fd]].fds[i] = sp.fd

\* C24 witness: the port is open on a handle of an entry that createPort
\* has replaced since: the binding still holds the handle
C24_Witness ==
    /\ sp.made /\ isOpen
    /\ sp.fd \in DOMAIN fds
    /\ ports[sp.path] # fds[sp.fd]

\* the methods a caller calls with an optional callback
Methods == {"open", "close", "update", "set", "flush", "drain"}
\* the step d notifies 'error'
EmitsError(d) == \E i \in 1 .. Len(d.emits) : d.emits[i].name = "error"

\* C25: 'error' is never notified in the step of the call itself: a method
\* called without a callback that fails, on the state of the port or in the
\* binding, notifies nothing before it returns; the notification comes from
\* a callback run off the nextTick queue.
C25_ErrorNotifiedLater ==
    [][/\ did'.op \in Methods => ~EmitsError(did')
       /\ EmitsError(did') => run # NoRun
      ]_vars

\* the handles port object e lists
Listed(e) == {objs[e].fds[i] : i \in 1 .. Len(objs[e].fds)}

\* C26: at every moment the handle map and the entries agree: a handle in
\* the map is listed by the entry the map gives for it, a handle an entry
\* lists is in the map with that entry, and the entry of every handle in
\* the map is the one registered under its path, so that no handle of an
\* entry createPort has replaced is left in the map.
C26_RegistryConsistent ==
    /\ \A h \in DOMAIN fds :
          /\ h \in Listed(fds[h])
          /\ objs[fds[h]].comName \in DOMAIN ports
          /\ ports[objs[fds[h]].comName] = fds[h]
    /\ \A e \in 1 .. Len(objs) : \A h \in Listed(e) :
          h \in DOMAIN fds /\ fds[h] = e

\* the handles opened with lock=true that are open on port object e
LockHolders(e) == {h \in OpenOn(e) : hist[h].lock}

\* C27: an open of a registered path is refused with the lock error only
\* while a handle opened with lock=true is open on the path's entry; with
\* no such handle open it succeeds, whatever handles opened with lock=false
\* remain.
C27_LockEndsWithHolder ==
    [][(last'.op = "open" /\ last'.path \in DOMAIN ports) =>
        /\ last'.err = "port is locked cannot open" =>
              LockHolders(ports[last'.path]) # {}
        /\ LockHolders(ports[last'.path]) = {} => last'.err = "none"
      ]_vars

\* the update the step has called fails: the port is not open, or the
\* binding throws or reports an error to the completion function
UpdateFails == sp.fd = Null \/ last'.threw \/ last'.err # "none"

\* C28: an update that fails, because the port is not open or because the
\* binding throws or reports an error, leaves the baud rate the port
\* records as it was; the recorded baud rate of a port changes only in the
\* step of an update that succeeds.
C28_UpdateKeepsBaudRate ==
    [][/\ (did'.op = "update" /\ UpdateFails) => sp'.baudRate = sp.baudRate
       /\ (sp.made /\ sp'.baudRate # sp.baudRate) =>
            (did'.op = "update" /\ ~UpdateFails)
      ]_vars
====
